---- MODULE Spec2Model ----
(***************************************************************************)
(* setup.py: a module body of one statement,                               *)
(*                                                                         *)
(*   setup(ext_modules = cythonize("app.py",                               *)
(*                 compiler_directives={"language_level": "3"}))           *)
(*                                                                         *)
(* The script's own behaviour is its control flow: the argument            *)
(* cythonize(...) is evaluated first, an exception of it propagates out of *)
(* the module body, otherwise setup(...) is called with its result, and an *)
(* exception of setup propagates too.  cythonize and setup are external    *)
(* (Cython, setuptools): each call is a stage that is active from call to  *)
(* return and whose outcome (return or raise) the environment chooses.     *)
(* What happens inside a stage is not modelled.                            *)
(***************************************************************************)
EXTENDS Naturals, Sequences, FiniteSets, TLC

\* Number of invocations of the script that are followed.
MaxRuns == 2

\* How the module body comes to run: __name__ == "__main__", or an import.
Modes == {"main", "import"}

\* sys.argv[1], read by setup(); the script never looks at it.
Commands == {"build_ext", "bdist_wheel", "install"}

\* The two external calls of the module body.
Stages == {"cythonize", "setup"}

SourceModule == "app.py"

CompilerDirectives == [language_level |-> "3"]

Terminal == {"success", "failed"}

VARIABLES
    mode,      \* how this invocation loaded the script
    argv,      \* the packaging command of this invocation
    pc,        \* position in the module body
    active,    \* stages called and not yet returned or raised
    log,       \* requests made to the toolchain in this invocation
    ext,       \* value returned by cythonize, <<>> before
    failed,    \* stages that raised in this invocation
    produced,  \* setup returned normally in this invocation
    disk,      \* toolchain outputs lying on disk, kept across invocations
    disk0,     \* disk as it was when this invocation started
    runs       \* finished invocations, oldest first

vars == <<mode, argv, pc, active, log, ext, failed, produced, disk, disk0, runs>>

DiskStates == [cfile : BOOLEAN, artifact : BOOLEAN]

\* cythonize("app.py", compiler_directives={"language_level": "3"})
CythonizeRequest ==
    [fn |-> "cythonize", arg |-> <<SourceModule>>, directives |-> CompilerDirectives]

\* setup(ext_modules = e)
SetupRequest(e) ==
    [fn |-> "setup", ext_modules |-> e]

\* the extension list cythonize returns for one source module
ExtensionList(src) == <<src>>

Requested(s) == \E i \in 1..Len(log) : log[i].fn = s

Count(s) == Cardinality({i \in 1..Len(log) : log[i].fn = s})

\* stages that were called and have returned normally
Returned == {s \in Stages : Requested(s) /\ s \notin active /\ s \notin failed}

Init ==
    /\ mode \in Modes
    /\ argv \in Commands
    /\ pc = "start"
    /\ active = {}
    /\ log = <<>>
    /\ ext = <<>>
    /\ failed = {}
    /\ produced = FALSE
    /\ disk \in DiskStates
    /\ disk0 = disk
    /\ runs = <<>>

\* the record of the invocation that ends with result r
RunRecord(r) ==
    [mode |-> mode, argv |-> argv, disk0 |-> disk0, result |-> r, log |-> log]

\* the per-invocation variables as they are left by a step that ends the run
Finish(p, r) ==
    /\ pc' = p
    /\ runs' = Append(runs, RunRecord(r))

\* a plausible slip: skip the transpiler when its output is already on disk
CallCythonizeCached ==
    /\ pc = "start"
    /\ IF disk.cfile
       THEN /\ pc' = "cy_done"
            /\ ext' = ExtensionList(SourceModule)
            /\ UNCHANGED <<active, log>>
       ELSE /\ pc' = "cythonize"
            /\ active' = active \cup {"cythonize"}
            /\ log' = Append(log, CythonizeRequest)
            /\ UNCHANGED ext
    /\ UNCHANGED <<mode, argv, failed, produced, disk, disk0, runs>>

\* a plausible slip: the body under an  if __name__ == "__main__"  guard
CallCythonizeMainOnly ==
    /\ pc = "start"
    /\ IF mode = "import"
       THEN /\ Finish("success", "success")
            /\ UNCHANGED <<active, log>>
       ELSE /\ pc' = "cythonize"
            /\ active' = active \cup {"cythonize"}
            /\ log' = Append(log, CythonizeRequest)
            /\ UNCHANGED runs
    /\ UNCHANGED <<mode, argv, ext, failed, produced, disk, disk0>>

\* a plausible slip: cythonize only for the commands that compile in place
CallCythonizeForBuild ==
    /\ pc = "start"
    /\ IF argv = "build_ext"
       THEN /\ pc' = "cythonize"
            /\ active' = active \cup {"cythonize"}
            /\ log' = Append(log, CythonizeRequest)
       ELSE /\ pc' = "cy_done"
            /\ UNCHANGED <<active, log>>
    /\ UNCHANGED <<mode, argv, ext, failed, produced, disk, disk0, runs>>

\* line 5: the argument of setup() is evaluated: cythonize is called
CallCythonize ==
    /\ pc = "start"
    /\ pc' = "cythonize"
    /\ active' = active \cup {"cythonize"}
    /\ log' = Append(log, CythonizeRequest)
    /\ UNCHANGED <<mode, argv, ext, failed, produced, disk, disk0, runs>>

\* line 5: cythonize returns the extension list, its C file is on disk
CythonizeReturn ==
    /\ pc = "cythonize"
    /\ pc' = "cy_done"
    /\ active' = active \ {"cythonize"}
    /\ ext' = ExtensionList(SourceModule)
    /\ disk' = [disk EXCEPT !.cfile = TRUE]
    /\ UNCHANGED <<mode, argv, log, failed, produced, disk0, runs>>

\* a plausible slip: except: fall back and go on without the extension
CythonizeRaiseFallback ==
    /\ pc = "cythonize"
    /\ pc' = "cy_done"
    /\ active' = active \ {"cythonize"}
    /\ failed' = failed \cup {"cythonize"}
    /\ UNCHANGED <<mode, argv, log, ext, produced, disk, disk0, runs>>

\* line 5: cythonize raises; nothing in the body catches it, the run ends
CythonizeRaise ==
    /\ pc = "cythonize"
    /\ active' = active \ {"cythonize"}
    /\ failed' = failed \cup {"cythonize"}
    /\ Finish("failed", "cythonize_failed")
    /\ UNCHANGED <<mode, argv, log, ext, produced, disk, disk0>>

\* a plausible slip: setup entered while its argument is still being computed
CallSetupEager ==
    /\ pc \in {"cythonize", "cy_done"}
    /\ pc' = "setup"
    /\ active' = active \cup {"setup"}
    /\ log' = Append(log, SetupRequest(ext))
    /\ UNCHANGED <<mode, argv, ext, failed, produced, disk, disk0, runs>>

\* a plausible slip: the script rejects a command itself before setup()
CallSetupChecked ==
    /\ pc = "cy_done"
    /\ IF argv = "install"
       THEN /\ Finish("failed", "script_failed")
            /\ UNCHANGED <<active, log>>
       ELSE /\ pc' = "setup"
            /\ active' = active \cup {"setup"}
            /\ log' = Append(log, SetupRequest(ext))
            /\ UNCHANGED runs
    /\ UNCHANGED <<mode, argv, ext, failed, produced, disk, disk0>>

\* lines 4-6: setup is called with the value cythonize returned
CallSetup ==
    /\ pc = "cy_done"
    /\ pc' = "setup"
    /\ active' = active \cup {"setup"}
    /\ log' = Append(log, SetupRequest(ext))
    /\ UNCHANGED <<mode, argv, ext, failed, produced, disk, disk0, runs>>

\* lines 4-6: setup returns, the module body is finished
SetupReturn ==
    /\ pc = "setup"
    /\ active' = active \ {"setup"}
    /\ produced' = TRUE
    /\ disk' = [disk EXCEPT !.artifact = TRUE]
    /\ Finish("success", "success")
    /\ UNCHANGED <<mode, argv, log, ext, failed, disk0>>

\* lines 4-6: setup raises; nothing in the body catches it, the run ends
SetupRaise ==
    /\ pc = "setup"
    /\ active' = active \ {"setup"}
    /\ failed' = failed \cup {"setup"}
    /\ Finish("failed", "setup_failed")
    /\ UNCHANGED <<mode, argv, log, ext, produced, disk, disk0>>

\* the script is run again; only the disk is left of the invocation before
Reinvoke ==
    /\ pc \in Terminal
    /\ Len(runs) < MaxRuns
    /\ mode' \in Modes
    /\ argv' \in Commands
    /\ pc' = "start"
    /\ active' = {}
    /\ log' = <<>>
    /\ ext' = <<>>
    /\ failed' = {}
    /\ produced' = FALSE
    /\ disk0' = disk
    /\ UNCHANGED <<disk, runs>>

Next ==
    \/ CallCythonize
    \/ CythonizeReturn
    \/ CythonizeRaise
    \/ CallSetup
    \/ SetupReturn
    \/ SetupRaise
    \/ Reinvoke

Spec == Init /\ [][Next]_vars

\* every called stage terminates, and the interpreter goes on with the body
FairSpec ==
    /\ Spec
    /\ WF_vars(CallCythonize)
    /\ WF_vars(CythonizeReturn \/ CythonizeRaise)
    /\ WF_vars(CallSetup)
    /\ WF_vars(SetupReturn \/ SetupRaise)

TypeOK ==
    /\ mode \in Modes
    /\ argv \in Commands
    /\ pc \in {"start", "cythonize", "cy_done", "setup"} \cup Terminal
    /\ active \subseteq Stages
    /\ failed \subseteq Stages
    /\ produced \in BOOLEAN
    /\ disk \in DiskStates
    /\ disk0 \in DiskStates
    /\ Len(runs) <= MaxRuns

Last(q) == q[Len(q)]

SameInputs(a, b) == a.mode = b.mode /\ a.argv = b.argv

FullLog == <<CythonizeRequest, SetupRequest(ExtensionList(SourceModule))>>

\* C4: two invocations with the same inputs (load mode, command) whose
\* toolchain stages reported the same outcome made the same sequence of
\* requests, whatever the earlier invocations left on disk.
C4_SameRequestsEachInvocation ==
    \A i, j \in 1..Len(runs) :
        (SameInputs(runs[i], runs[j]) /\ runs[i].result = runs[j].result)
            => runs[i].log = runs[j].log

\* two successful invocations with the same inputs, the second one started
\* on a disk that the first one had changed
C4_Witness ==
    /\ Len(runs) = 2
    /\ SameInputs(runs[1], runs[2])
    /\ runs[1].result = "success" /\ runs[2].result = "success"
    /\ ~runs[1].disk0.cfile /\ runs[2].disk0.cfile
    /\ runs[2].log = FullLog

\* C5: a run fails only because a toolchain stage raised (the script has no
\* error of its own), and when both stages have returned the run has ended
\* in success with the artifact produced.
C5_FailuresComeFromStages ==
    /\ pc = "failed" => failed # {}
    /\ \A i \in 1..Len(runs) :
           runs[i].result \in {"success", "cythonize_failed", "setup_failed"}
    /\ Returned = Stages => (pc = "success" /\ produced)

\* a run whose setup raised, followed by a run that produced the artifact
C5_Witness ==
    /\ Len(runs) = 2
    /\ runs[1].result = "setup_failed"
    /\ Returned = Stages
    /\ pc = "success" /\ produced

\* C6 as stated: a load that is not the entry point requests nothing from
\* the toolchain and changes nothing.
C6_ImportTriggersNothing ==
    mode = "import" => (log = <<>> /\ ~produced /\ disk = disk0)

\* C6 amended: every load of the script, entry point or import, calls
\* cythonize("app.py", ...) first and, if that returns, setup(); the disk
\* changes only through a stage that has returned.
C6_EveryLoadTriggersBuild ==
    /\ pc # "start" => (Len(log) >= 1 /\ log[1] = CythonizeRequest)
    /\ pc = "success" => log = FullLog
    /\ disk # disk0 => Returned # {}

\* an imported script that ran the whole build
C6_Witness ==
    /\ mode = "import"
    /\ pc = "success"
    /\ log = FullLog
    /\ produced

\* C7: a stage that raised ends the run as failed: every stage is called at
\* most once per invocation, the failed stage is the last one called, and a
\* failed run has produced no artifact.
C7_FailureEndsRun ==
    /\ \A s \in Stages : Count(s) <= 1
    /\ \A s \in failed :
           /\ pc = "failed"
           /\ Last(log).fn = s
           /\ ~produced
    /\ pc = "failed" => ~produced

\* a run that failed in cythonize, then a run that failed in setup
C7_Witness ==
    /\ Len(runs) = 2
    /\ runs[1].result = "cythonize_failed"
    /\ Len(runs[1].log) = 1
    /\ failed = {"setup"}
    /\ pc = "failed"

\* C9: at most one stage of an invocation is active at any time, a finished
\* run is a success or a failure and never changes from one to the other,
\* and (every called stage terminating) every invocation reaches an end.
C9_SequentialAndTerminates ==
    /\ [](Cardinality(active) <= 1)
    /\ [](pc = "success" => failed = {})
    /\ [][(pc \in Terminal /\ pc' \in Terminal) => pc' = pc]_vars
    /\ [](pc \notin Terminal => <>(pc \in Terminal))

\* the second invocation is inside setup, the first one has ended
C9_Witness ==
    /\ Len(runs) = 1
    /\ runs[1].result \in {"success", "setup_failed"}
    /\ pc = "setup"
    /\ active = {"setup"}

\* C10: under every command cythonize is requested as soon as the body
\* runs; setup is requested only after cythonize has returned, with the
\* value it returned; and after a cythonize that raised setup is not called.
C10_CythonizeBeforeSetup ==
    /\ pc # "start" => Requested("cythonize")
    /\ Requested("setup") =>
           /\ log = FullLog
           /\ "cythonize" \in Returned
    /\ "cythonize" \in failed => ~Requested("setup")

\* cythonize raised under one command, and was followed by setup under another
C10_Witness ==
    /\ Len(runs) >= 1
    /\ runs[1].argv = "bdist_wheel"
    /\ runs[1].result = "cythonize_failed"
    /\ runs[1].log = <<CythonizeRequest>>
    /\ argv = "install"
    /\ Requested("setup")

====
